---- MODULE Spec2Model ----
(***************************************************************************)
(* A model of src/scripts/issue-bot.py: one invocation of main() after     *)
(* another against the shared S3 bucket (the canonical knowledge base      *)
(* deequ-kb.md, the temporary keys and the rate-limit marker               *)
(* kb-last-update).  Every collaborator call (Bedrock, GitHub, S3, Slack)  *)
(* picks its outcome nondeterministically: it succeeds or it raises.       *)
(*                                                                         *)
(* Text is modelled as a sequence of words, a knowledge-base blob as a     *)
(* sequence of section identifiers whose sizes and contents are given by   *)
(* SectionChars and SectionWords, the model's reply to the decision prompt *)
(* as a sequence of characters.                                            *)
(*                                                                         *)
(* Spec is the program.  FeedbackSpec enters                                *)
(* enhance_knowledge_base_with_validation with any list of comments and    *)
(* TruncateSpec applies smart_truncate to any long text: they check the    *)
(* feedback analyzer and the truncator over more inputs than the issues of *)
(* Spec give them.  ConstructSpec runs the constructor in any environment, *)
(* and RaceSpec interleaves the learning of two invocations that were      *)
(* triggered at once.                                                      *)
(***************************************************************************)
EXTENDS Integers, Sequences, FiniteSets, TLC

\* ------------------------------------------------------------- bounds
\* invocations of main() in one behaviour
MaxInvocations == 2
\* advances of the clock in one behaviour
MaxTicks == 1
\* comments of the issue handed to analyze_customer_feedback on its own
MaxComments == 3
\* sections of the text handed to smart_truncate on its own
MaxSections == 3

\* ---------------------------------------------------------- constants
\* the cooldown of the rate limit, in seconds (line 428)
Cooldown == 3600
\* characters per estimated token (line 85)
CharsPerToken == 4
\* the estimate above which the context is truncated (line 167)
TokenLimit == 8000
\* the tokens the truncated context is cut to (lines 180, 196)
TargetTokens == 7000
\* extract_key_terms and should_search_repository keep this many terms
MaxTerms == 5

\* a local or a field that holds no value yet
Unset == [unset |-> TRUE]

\* an issue body: GitHub sends null for an issue without a body
NoneBody == [none |-> TRUE, text |-> <<>>]
StrBody(text) == [none |-> FALSE, text |-> text]

\* ------------------------------------------------------ text helpers
\* str.lower() on the words of the model's vocabulary
LowerWord(w) ==
    CASE w = "DQDL" -> "dqdl"
      [] w = "Error" -> "error"
      [] OTHER -> w

\* `needle in text.lower()`, at the granularity of words
InLower(needle, text) == \E i \in 1..Len(text) : LowerWord(text[i]) = needle

\* `needle in text`, case-sensitive
InText(needle, text) == \E i \in 1..Len(text) : text[i] = needle

\* s[:n]
Take(s, n) == SubSeq(s, 1, IF Len(s) < n THEN Len(s) ELSE n)

\* f"{body}": None is rendered as the word None
Render(body) == IF body.none THEN <<"None">> ELSE body.text

\* ------------------------------------------------- the sentinel text
\* the literal looked for in the model's reply (line 374)
Sentinel == <<"E","S","C","A","L","A","T","E","_","T","O","_","T","E","A","M">>

\* a reply that answers the question
AnswerText == <<"o","k">>

LowerSentinel == <<"e","s","c","a","l","a","t","e","_","t","o","_","t","e","a","m">>

\* the replies the inference collaborator may give to the decision prompt
RawTexts ==
    { AnswerText,
      Sentinel,
      <<" ">> \o Sentinel \o <<"\n">>,
      AnswerText \o <<" ">> \o Sentinel \o <<" ">> \o AnswerText,
      LowerSentinel,
      SubSeq(Sentinel, 1, 11) \o <<" ">> \o SubSeq(Sentinel, 12, 16),
      <<" ">> \o AnswerText \o <<" ">> }

IsSpace(c) == c \in {" ", "\n", "\t"}

RECURSIVE LStrip(_)
LStrip(s) == IF s # <<>> /\ IsSpace(Head(s)) THEN LStrip(Tail(s)) ELSE s

RECURSIVE RStrip(_)
RStrip(s) ==
    IF s # <<>> /\ IsSpace(s[Len(s)]) THEN RStrip(SubSeq(s, 1, Len(s) - 1)) ELSE s

\* str.strip()
Strip(s) == RStrip(LStrip(s))

\* s.startswith(sub)
StartsWith(sub, s) == Len(sub) <= Len(s) /\ SubSeq(s, 1, Len(sub)) = sub

\* `sub in s` for character sequences
RECURSIVE Contains(_, _)
Contains(sub, s) ==
    IF Len(s) < Len(sub) THEN FALSE
    ELSE StartsWith(sub, s) \/ Contains(sub, Tail(s))

Escalates_startswith(ai_response) == StartsWith(Sentinel, ai_response)

\* line 374: should_escalate = "ESCALATE_TO_TEAM" in ai_response
Escalates(ai_response) == Contains(Sentinel, ai_response)

\* ------------------------------------------------- knowledge-base blobs
\* section identifiers
PlaceholderSection == "placeholder"
EnvSection == "env"
BigSectionA == "bigA"
BigSectionB == "bigB"
BigSectionC == "bigC"
LearnedSection == "learned"
RepoSection == "Repository Context"
\* a knowledge base without a heading, longer than the target of the truncation
FlatSection == "flat"
\* sections of four sizes: plain ones, and ones that mention the words error
\* and exception
PlainSections == {"plain2996", "plain4996", "plain4997", "plain6997"}
ErrorSections == {"error2996", "error4996", "error4997", "error6997"}

\* "Deequ knowledge base not available" (lines 38, 67)
PlaceholderKB == <<PlaceholderSection>>
\* the content of DEEQU_KNOWLEDGE_BASE, when it is set
EnvKB == <<EnvSection>>

\* the length in characters of a section
SectionChars(id) ==
    CASE id = PlaceholderSection -> 34
      [] id = EnvSection -> 400
      [] id \in {BigSectionA, BigSectionB, BigSectionC} -> 12000
      [] id = LearnedSection -> 800
      [] id = RepoSection -> 3000
      [] id = FlatSection -> 30000
      [] id \in {"plain2996", "error2996"} -> 2996
      [] id \in {"plain4996", "error4996"} -> 4996
      [] id \in {"plain4997", "error4997"} -> 4997
      [] id \in {"plain6997", "error6997"} -> 6997
      [] OTHER -> 0

\* the words of the vocabulary a section contains
SectionWords(id) ==
    CASE id \in {BigSectionC} \cup ErrorSections -> {"error", "exception"}
      [] id = BigSectionB -> {"dqdl"}
      [] OTHER -> {}

\* the separator '\n## ' between two sections (line 177)
SeparatorChars == 4

RECURSIVE SumChars(_)
SumChars(blob) == IF blob = <<>> THEN 0 ELSE SectionChars(Head(blob)) + SumChars(Tail(blob))

\* len(content)
BlobChars(blob) ==
    IF blob = <<>> THEN 0 ELSE SumChars(blob) + SeparatorChars * (Len(blob) - 1)

\* lines 83-85
count_tokens_estimate(blob) == BlobChars(blob) \div CharsPerToken

\* the blobs the canonical key may hold before the first invocation
InitialKBs == { <<BigSectionA, BigSectionB, BigSectionC>> }

\* ------------------------------------------------------- key terms
\* lines 600-614
extract_key_terms(issue_content) ==
    LET t1 == IF InLower("hasnumberofdistinctvalues", issue_content)
              THEN <<"hasNumberOfDistinctValues", "Histogram">> ELSE <<>>
        t2 == IF InLower("count column", issue_content)
              THEN <<"column", "count", "conflict">> ELSE <<>>
        t3 == IF InLower("dqdl", issue_content)
              THEN <<"DQDL", "EvaluateDataQuality">> ELSE <<>>
        t4 == IF \E w \in {"error", "exception", "fail"} : InLower(w, issue_content)
              THEN <<"error", "exception">> ELSE <<>>
    IN  Take(t1 \o t2 \o t3 \o t4, MaxTerms)

\* ------------------------------------------------- smart truncation
\* 7000 * 4 (lines 180, 196, 210)
TargetChars == TargetTokens * CharsPerToken

Max(a, b) == IF a > b THEN a ELSE b
Min(a, b) == IF a < b THEN a ELSE b

\* line 188: the number of terms whose lower case occurs in the section
TermScore(search_terms, section) ==
    Cardinality({k \in 1..Len(search_terms) :
                    LowerWord(search_terms[k]) \in SectionWords(section)})

\* the score is the bonus of the place alone
SectionScore_place_only(search_terms, sections, i) == Max(0, 10 - (i - 1))

\* lines 187-190: the score of the section at (1-based) place i
SectionScore(search_terms, sections, i) ==
    TermScore(search_terms, sections[i]) + Max(0, 10 - (i - 1))

\* line 194: the places of the sections, by score descending, ties in input order
RECURSIVE SortedPlaces(_, _, _)
SortedPlaces(search_terms, sections, left) ==
    IF left = {} THEN <<>>
    ELSE LET best == CHOOSE i \in left :
                        \A j \in left :
                            \/ SectionScore(search_terms, sections, i)
                                  > SectionScore(search_terms, sections, j)
                            \/ /\ SectionScore(search_terms, sections, i)
                                    = SectionScore(search_terms, sections, j)
                               /\ i <= j
         IN  <<best>> \o SortedPlaces(search_terms, sections, left \ {best})

\* a section that does not fit is passed over and the next ones are tried
RECURSIVE Greedy_continue(_, _, _)
Greedy_continue(sections, places, result) ==
    IF places = <<>> THEN result
    ELSE LET section == sections[Head(places)]
             added == IF result = <<>> THEN <<section>> ELSE result \o <<section>>
         IN  IF BlobChars(added) < TargetChars
             THEN Greedy_continue(sections, Tail(places), added)
             ELSE Greedy_continue(sections, Tail(places), result)

\* lines 198-203: whole sections are added while the result stays under the target
RECURSIVE Greedy(_, _, _)
Greedy(sections, places, result) ==
    IF places = <<>> THEN result
    ELSE LET section == sections[Head(places)]
             added == IF result = <<>> THEN <<section>> ELSE result \o <<section>>
         IN  IF BlobChars(added) < TargetChars
             THEN Greedy(sections, Tail(places), added)
             ELSE result

\* a context: the sections it is made of and its length in characters
Context(sections) == [sections |-> sections, chars |-> BlobChars(sections)]

\* lines 174-211
smart_truncate(content, issue_data) ==
    IF Len(content) <= 1
    THEN [sections |-> content, chars |-> Min(BlobChars(content), TargetChars)]
    ELSE LET search_terms ==
                 extract_key_terms(issue_data.title \o <<" ">> \o Render(issue_data.body))
         IN  Context(Greedy(content,
                            SortedPlaces(search_terms, content, 1..Len(content)),
                            <<>>))

\* ------------------------------------------------------ shared storage
\* the keys of the bucket
KB_KEY == <<"deequ-kb.md">>
MARKER_KEY == <<"kb-last-update">>
\* line 623: f"{key}.tmp.{timestamp}", the timestamp being the local time in seconds
TempKey(timestamp) == <<"deequ-kb.md", "tmp", timestamp>>

EmptyBucket == [k \in {} |-> Unset]

\* put_object: the key holds the body, last modified now
Put(store, key, body, time) ==
    [k \in DOMAIN store \cup {key} |->
        IF k = key THEN [body |-> body, last_modified |-> time] ELSE store[k]]

\* delete_object
Delete(store, key) == [k \in DOMAIN store \ {key} |-> store[k]]

\* ---------------------------------------------------------- the issue
\* the login of the agent's own comments (line 505)
BotLogin == "github-actions[bot]"

\* a comment: its author and whether len(body.strip()) > 10
BotComment == [login |-> BotLogin, long |-> TRUE]
UserComment == [login |-> "user", long |-> TRUE]
ShortComment == [login |-> "user", long |-> FALSE]

Issue(title, body, comments) ==
    [title |-> title, body |-> body, recent_comments |-> comments]

\* the issues an invocation may fetch
Issues ==
    { Issue(<<"help">>, StrBody(<<"thanks">>), <<UserComment, BotComment>>),
      Issue(<<"DQDL", "Error">>, NoneBody, <<BotComment, UserComment>>),
      Issue(<<"DQDL", "Error">>, StrBody(<<"thanks">>), <<BotComment, ShortComment, UserComment>>),
      Issue(<<"help">>, StrBody(<<"fail", "AI assistance">>), <<>>),
      Issue(<<"github-actions[bot]", "Error">>, StrBody(<<"thanks">>), <<>>) }

\* line 441: f"{title}\n{body}"
IssueContent(issue_data) == issue_data.title \o <<"\n">> \o Render(issue_data.body)

\* lines 691-709: body.lower() raises AttributeError when the body is None
log_escalation_pattern_raises(issue_data) == issue_data.body.none

\* ------------------------------------------------------------ feedback
\* the scores are kept in tenths: 0.3 is 3, 1.0 is 10
ScoreOne == 10
\* lines 521, 523: the dead zone of the classification, 0.3
SentimentThreshold == 3
\* line 399: the confidence a positive verdict needs, 0.4
LearnConfidence == 4

\* the texts the inference collaborator may return to the sentiment prompt.
\* The numbers are those for which the floating-point mean of lines 518-523
\* falls on the same side of 0.3 and of 0.4 as the exact mean
SentimentTexts ==
    { <<"g","o","o","d">>,
      <<"n","a","n">>,
      <<"-","2",".","0">>,
      <<"-","0",".","3">>,
      <<"0",".","0">>,
      <<"0",".","3">>,
      <<" ","0",".","5","\n">>,
      <<"7">> }

\* the outcomes of the sentiment call: it raises, or its payload has a text
SentimentReplies ==
    { [kind |-> "raise", text |-> <<>>] } \cup [kind : {"text"}, text : SentimentTexts]

\* a float: not a number, or a number of tenths
NaN == [nan |-> TRUE, tenths |-> 0]
Float(tenths) == [nan |-> FALSE, tenths |-> tenths]

\* line 558: float(sentiment_text), <<>> for ValueError
ParseFloat(sentiment_text) ==
    CASE sentiment_text = <<"n","a","n">> -> <<NaN>>
      [] sentiment_text = <<"-","2",".","0">> -> <<Float(-20)>>
      [] sentiment_text = <<"-","0",".","3">> -> <<Float(-3)>>
      [] sentiment_text = <<"0",".","0">> -> <<Float(0)>>
      [] sentiment_text = <<"0",".","3">> -> <<Float(3)>>
      [] sentiment_text = <<"0",".","5">> -> <<Float(5)>>
      [] sentiment_text = <<"7">> -> <<Float(70)>>
      [] OTHER -> <<>>

\* line 559: max(-1.0, min(1.0, score)); min keeps its first argument when
\* the comparison with the second is false, as every comparison with nan is
Clamp(score) ==
    IF score.nan THEN ScoreOne ELSE Max(-ScoreOne, Min(ScoreOne, score.tenths))

\* lines 528-567: <<score>>, or <<>> for None
get_sentiment_score(reply) ==
    IF reply.kind = "raise" THEN <<>>
    ELSE LET parsed == ParseFloat(Strip(reply.text))
         IN  IF parsed = <<>> THEN <<>> ELSE <<Clamp(parsed[1])>>

\* every long human comment is scored, before the agent's first comment too
RECURSIVE FeedbackScores_unordered(_, _, _, _)
FeedbackScores_unordered(comments, replies, i, bot_comment_found) ==
    IF i > Len(comments) THEN <<>>
    ELSE IF comments[i].login = BotLogin
         THEN FeedbackScores_unordered(comments, replies, i + 1, TRUE)
         ELSE (IF comments[i].long THEN get_sentiment_score(replies[i]) ELSE <<>>)
              \o FeedbackScores_unordered(comments, replies, i + 1, bot_comment_found)

\* a score that could not be parsed counts as 0
RECURSIVE FeedbackScores_none_as_zero(_, _, _, _)
FeedbackScores_none_as_zero(comments, replies, i, bot_comment_found) ==
    IF i > Len(comments) THEN <<>>
    ELSE IF comments[i].login = BotLogin
         THEN FeedbackScores_none_as_zero(comments, replies, i + 1, TRUE)
         ELSE (IF bot_comment_found /\ comments[i].long
               THEN (IF get_sentiment_score(replies[i]) = <<>>
                     THEN <<0>> ELSE get_sentiment_score(replies[i]))
               ELSE <<>>)
              \o FeedbackScores_none_as_zero(comments, replies, i + 1, bot_comment_found)

\* lines 500-513: the scores of the comments from place i on
RECURSIVE FeedbackScores(_, _, _, _)
FeedbackScores(comments, replies, i, bot_comment_found) ==
    IF i > Len(comments) THEN <<>>
    ELSE IF comments[i].login = BotLogin
         THEN FeedbackScores(comments, replies, i + 1, TRUE)
         ELSE (IF bot_comment_found /\ comments[i].long
               THEN get_sentiment_score(replies[i])
               ELSE <<>>)
              \o FeedbackScores(comments, replies, i + 1, bot_comment_found)

\* lines 500-513: the calls of get_sentiment_score from place i on, each with
\* the place of its comment, the reply it got and the score it returned
RECURSIVE SentimentCalls(_, _, _, _)
SentimentCalls(comments, replies, i, bot_comment_found) ==
    IF i > Len(comments) THEN <<>>
    ELSE IF comments[i].login = BotLogin
         THEN SentimentCalls(comments, replies, i + 1, TRUE)
         ELSE (IF bot_comment_found /\ comments[i].long
               THEN <<[place |-> i, reply |-> replies[i],
                       score |-> get_sentiment_score(replies[i])]>>
               ELSE <<>>)
              \o SentimentCalls(comments, replies, i + 1, bot_comment_found)

RECURSIVE SumSeq(_)
SumSeq(s) == IF s = <<>> THEN 0 ELSE Head(s) + SumSeq(Tail(s))

Abs(x) == IF x < 0 THEN -x ELSE x

\* a mean of exactly 0.3 is classified positive and one of -0.3 negative
analyze_customer_feedback_inclusive(comments, replies) ==
    LET feedback_scores == FeedbackScores(comments, replies, 1, FALSE)
        total == SumSeq(feedback_scores)
        count == Len(feedback_scores)
    IN  IF count = 0
        THEN [sentiment |-> "neutral", total |-> 0, count |-> 0]
        ELSE IF total >= SentimentThreshold * count
        THEN [sentiment |-> "positive", total |-> total, count |-> count]
        ELSE IF total <= -SentimentThreshold * count
        THEN [sentiment |-> "negative", total |-> Abs(total), count |-> count]
        ELSE [sentiment |-> "neutral", total |-> Abs(total), count |-> count]

\* lines 494-526: the verdict; the mean is total / count and the confidence
\* |total| / count, both in tenths
analyze_customer_feedback(comments, replies) ==
    LET feedback_scores == FeedbackScores(comments, replies, 1, FALSE)
        total == SumSeq(feedback_scores)
        count == Len(feedback_scores)
    IN  IF count = 0
        THEN [sentiment |-> "neutral", total |-> 0, count |-> 0]
        ELSE IF total > SentimentThreshold * count
        THEN [sentiment |-> "positive", total |-> total, count |-> count]
        ELSE IF total < -SentimentThreshold * count
        THEN [sentiment |-> "negative", total |-> Abs(total), count |-> count]
        ELSE [sentiment |-> "neutral", total |-> Abs(total), count |-> count]

\* line 399: feedback['confidence'] > 0.4
ConfidenceAbove(feedback, tenths) == feedback.total > tenths * feedback.count

\* --------------------------------------------------------------- state
VARIABLES
    s3,               \* the bucket: key -> [body, last_modified]
    now,              \* the clock, in seconds
    invocations,      \* invocations of main() started so far
    copies,           \* the times of the successful copies to the canonical key
    pc,               \* where the running invocation is
    github_token,     \* GITHUB_TOKEN is set
    slack_webhook,    \* SLACK_WEBHOOK_URL is set
    deequ_context,    \* the in-memory knowledge base
    issue_data,       \* the fetched issue
    enhanced_context, \* the context of the decision prompt
    content,          \* the text handed to smart_truncate on its own
    payload,          \* the reply to the decision prompt
    analysis,         \* the Analysis
    feedback,         \* the verdict of analyze_customer_feedback
    sentiment_calls,  \* the calls of get_sentiment_score behind the verdict
    rate_check,       \* what the rate-limit check saw
    kb_before,        \* the canonical key's object when the invocation started
    marker_before,    \* the marker's object when the invocation started
    enhanced_kb,      \* the new blob of update_knowledge_base
    temp_key,         \* the temporary key of safe_s3_update
    trace,            \* the calls of the running invocation, in order
    environ,          \* the environment handed to DeequIssueBot() on its own
    parked            \* the locals of the invocation that is not running

storage == <<s3, copies>>
clock == <<now>>
env == <<github_token, slack_webhook>>
context == <<enhanced_context, content>>
verdict == <<feedback, sentiment_calls>>
learn == <<rate_check, enhanced_kb, temp_key>>
before == <<kb_before, marker_before>>
apart == <<environ, parked>>
vars == <<s3, now, invocations, copies, pc, github_token, slack_webhook,
          deequ_context, issue_data, enhanced_context, content, payload, analysis,
          feedback,
          sentiment_calls, rate_check, kb_before, marker_before, enhanced_kb, temp_key, trace,
          environ, parked>>

\* the object of a key, or Unset when the key does not exist
ObjectAt(store, key) == IF key \in DOMAIN store THEN store[key] ELSE Unset

Init ==
    /\ \/ s3 = EmptyBucket
       \/ \E kb \in InitialKBs : s3 = Put(EmptyBucket, KB_KEY, kb, 0)
    /\ now = 0
    /\ invocations = 0
    /\ copies = <<>>
    /\ pc = "idle"
    /\ github_token = FALSE
    /\ slack_webhook = FALSE
    /\ deequ_context = Unset
    /\ issue_data = Unset
    /\ enhanced_context = Unset
    /\ content = <<>>
    /\ payload = Unset
    /\ analysis = Unset
    /\ feedback = Unset
    /\ sentiment_calls = <<>>
    /\ rate_check = Unset
    /\ kb_before = Unset
    /\ marker_before = Unset
    /\ enhanced_kb = Unset
    /\ temp_key = Unset
    /\ trace = <<>>
    /\ environ = Unset
    /\ parked = Unset

\* ------------------------------------------------------------- actions
Call(op) == trace' = Append(trace, op)

\* the clock advances by a cooldown between two invocations; within an
\* invocation every call is bounded by seconds (timeouts of 10 and 30 s), which
\* is nothing at this granularity
TickStep == Cooldown

Tick ==
    /\ pc = "idle"
    /\ now < MaxTicks * TickStep
    /\ now' = now + TickStep
    /\ UNCHANGED <<s3, invocations, copies, pc, env, deequ_context, issue_data,
                   context, payload, analysis, verdict, learn, before,
                   trace>>
    /\ UNCHANGED apart

\* DEEQU_KNOWLEDGE_BASE goes before S3
load_deequ_context_env_first(store, s3_ok, env_kb_set) ==
    IF env_kb_set THEN EnvKB
    ELSE IF s3_ok /\ KB_KEY \in DOMAIN store THEN store[KB_KEY].body
    ELSE PlaceholderKB

\* lines 40-67: S3, then DEEQU_KNOWLEDGE_BASE, then the placeholder
load_deequ_context(store, s3_ok, env_kb_set) ==
    IF s3_ok /\ KB_KEY \in DOMAIN store
    THEN store[KB_KEY].body
    ELSE IF env_kb_set THEN EnvKB ELSE PlaceholderKB

\* lines 834-851 and 16-38: main() up to the fetch of the issue
Main ==
    /\ pc = "idle"
    /\ invocations < MaxInvocations
    /\ invocations' = invocations + 1
    /\ kb_before' = ObjectAt(s3, KB_KEY)
    /\ marker_before' = ObjectAt(s3, MARKER_KEY)
    /\ \E actor_is_bot, model_id, system_prompt, api_version \in BOOLEAN :
       \E token, webhook, s3_ok, env_kb_set \in BOOLEAN :
       \E fetched \in Issues \cup {Unset} :
          IF actor_is_bot
          THEN \* lines 840-843: sys.exit(0)
               /\ pc' = "exit"
               /\ UNCHANGED <<env, deequ_context, issue_data>>
          ELSE IF ~(model_id /\ system_prompt /\ api_version)
          THEN \* lines 26-31: ValueError
               /\ pc' = "raised"
               /\ UNCHANGED <<env, deequ_context, issue_data>>
          ELSE /\ github_token' = token
               /\ slack_webhook' = webhook
               /\ deequ_context' = load_deequ_context(s3, s3_ok, env_kb_set)
               /\ IF fetched = Unset
                  THEN \* lines 849-851: sys.exit(1)
                       /\ pc' = "exit"
                       /\ UNCHANGED issue_data
                  ELSE /\ pc' = "context"
                       /\ issue_data' = fetched
    /\ UNCHANGED <<storage, clock, context, payload, analysis, verdict,
                   learn, trace>>
    /\ UNCHANGED apart

\* lines 143-172; needs_search and search_terms are the outcome of
\* should_search_repository, found that of search_repository_docs
get_enhanced_context(base_context, issue, needs_search, search_terms, found) ==
    LET enhanced == IF needs_search /\ search_terms # <<>> /\ found
                    THEN base_context \o <<RepoSection>>
                    ELSE base_context
    IN  IF count_tokens_estimate(enhanced) > TokenLimit
        THEN smart_truncate(enhanced, issue)
        ELSE Context(enhanced)

\* the decision prompt is built from the in-memory knowledge base, the call of
\* get_enhanced_context left out
AssembleContext_skipped ==
    /\ pc = "context"
    /\ enhanced_context' = Context(deequ_context)
    /\ pc' = "decide"
    /\ UNCHANGED content
    /\ UNCHANGED <<storage, clock, invocations, env, deequ_context, issue_data,
                   payload, analysis, verdict, learn, before, trace>>
    /\ UNCHANGED apart

\* lines 334-341: the context of the prompt; get_enhanced_context raises on
\* line 147 when the body is None and the in-memory knowledge base is used
AssembleContext ==
    /\ pc = "context"
    /\ IF issue_data.body.none
       THEN enhanced_context' = Context(deequ_context)
       ELSE \E needs_search, found \in BOOLEAN :
            \E search_terms \in {<<>>, <<"Histogram">>} :
               enhanced_context' =
                   get_enhanced_context(deequ_context, issue_data, needs_search,
                                        search_terms, found)
    /\ Call("get_enhanced_context")
    /\ pc' = "decide"
    /\ UNCHANGED content
    /\ UNCHANGED <<storage, clock, invocations, env, deequ_context, issue_data,
                   payload, analysis, verdict, learn, before>>
    /\ UNCHANGED apart

\* the outcomes of the decision call: it raises, or it returns a payload
\* without a content field, with an empty one, or with a text
Payloads ==
    { [kind |-> "raise", text |-> <<>>],
      [kind |-> "no_content", text |-> <<>>],
      [kind |-> "empty_content", text |-> <<>>] }
    \cup [kind : {"text"}, text : RawTexts]

\* lines 796-803
fallback_analysis ==
    [response |-> Sentinel, should_escalate |-> TRUE, category |-> "question"]

\* lines 371-386
Interpret(text) ==
    LET ai_response == Strip(text)
    IN  [response |-> ai_response,
         should_escalate |-> Escalates(ai_response),
         category |-> "question"]

\* lines 354-391: the decision call and its interpretation
Decide ==
    /\ pc = "decide"
    /\ \E p \in Payloads :
          /\ payload' = p
          /\ IF p.kind = "text"
             THEN /\ analysis' = Interpret(p.text)
                  /\ pc' = "respond"
             ELSE IF log_escalation_pattern_raises(issue_data)
             THEN \* line 390 raises inside the handler
                  /\ pc' = "raised"
                  /\ UNCHANGED analysis
             ELSE /\ analysis' = fallback_analysis
                  /\ pc' = "respond"
    /\ Call("invoke_model")
    /\ UNCHANGED <<storage, clock, invocations, env, deequ_context, issue_data,
                   context, verdict, learn, before>>
    /\ UNCHANGED apart

\* lines 805-832: the POST is issued when a token is set, whatever its outcome
post_comment(what) == IF github_token THEN Call(what) ELSE UNCHANGED trace

\* a direct answer goes on to the Slack notification as an escalation does
Respond_always_notifies ==
    /\ pc = "respond"
    /\ IF ~analysis.should_escalate
       THEN /\ post_comment("post_answer")
            /\ pc' = "slack"
       ELSE /\ post_comment("post_ack")
            /\ pc' = "feedback"
    /\ payload' = Unset
    /\ enhanced_context' = Unset
    /\ UNCHANGED content
    /\ UNCHANGED <<storage, clock, invocations, env, deequ_context, issue_data,
                   analysis, verdict, learn, before>>
    /\ UNCHANGED apart

\* lines 856-868; analyze_with_bedrock has returned and its locals are gone
Respond ==
    /\ pc = "respond"
    /\ IF ~analysis.should_escalate
       THEN /\ post_comment("post_answer")
            /\ pc' = "done"
       ELSE /\ post_comment("post_ack")
            /\ pc' = "feedback"
    /\ payload' = Unset
    /\ enhanced_context' = Unset
    /\ UNCHANGED content
    /\ UNCHANGED <<storage, clock, invocations, env, deequ_context, issue_data,
                   analysis, verdict, learn, before>>
    /\ UNCHANGED apart

\* lines 505-510: the places of the human comments long enough to be scored;
\* the inference collaborator has a reply for each
ScorablePlaces(comments) ==
    {j \in 1..Len(comments) : comments[j].login # BotLogin /\ comments[j].long}

\* a negative verdict is not told from no verdict
Gate_negative_learns(fb, current) ==
    IF fb.sentiment = "positive" /\ ConfidenceAbove(fb, LearnConfidence)
    THEN (IF current.should_escalate THEN "rate_check" ELSE "slack")
    ELSE (IF current.should_escalate THEN "rate_check" ELSE "slack")

\* a positive verdict of low confidence is not learned from
Gate_confident_only(fb, current) ==
    IF fb.sentiment = "positive"
    THEN (IF ConfidenceAbove(fb, LearnConfidence) /\ current.should_escalate
          THEN "rate_check" ELSE "slack")
    ELSE IF fb.sentiment = "negative"
    THEN (IF log_escalation_pattern_raises(issue_data) THEN "raised" ELSE "slack")
    ELSE (IF current.should_escalate THEN "rate_check" ELSE "slack")

\* lines 393-416: the gate of the learning, given the verdict
Gate(fb, current) ==
    IF fb.sentiment = "positive" /\ ConfidenceAbove(fb, LearnConfidence)
    THEN (IF current.should_escalate THEN "rate_check" ELSE "slack")
    ELSE IF fb.sentiment = "negative"
    THEN (IF log_escalation_pattern_raises(issue_data) THEN "raised" ELSE "slack")
    ELSE (IF current.should_escalate THEN "rate_check" ELSE "slack")

\* lines 393-416: enhance_knowledge_base_with_validation up to the rate-limit check
Feedback ==
    /\ pc = "feedback"
    /\ \E replies \in [ScorablePlaces(issue_data.recent_comments) -> SentimentReplies] :
          LET fb == analyze_customer_feedback(issue_data.recent_comments, replies)
          IN  /\ feedback' = fb
              /\ sentiment_calls' =
                    SentimentCalls(issue_data.recent_comments, replies, 1, FALSE)
              /\ pc' = Gate(fb, analysis)
    /\ UNCHANGED <<storage, clock, invocations, env, deequ_context, issue_data,
                   context, payload, analysis, learn, before, trace>>
    /\ UNCHANGED apart

\* line 428: (now - last_modified).total_seconds() < 3600
RateLimited(time, last_modified) == time - last_modified < Cooldown

\* the check is a lock: it does not pass while the other invocation is between
\* its own check and its refresh of the marker
RateLimitCheck_exclusive ==
    /\ pc = "rate_check"
    /\ \E outcome \in {"client_raises", "head_raises", "head_ok"} :
          /\ outcome = "head_ok" => MARKER_KEY \in DOMAIN s3
          /\ rate_check' =
                [outcome |-> outcome,
                 copies |-> Len(copies),
                 marker |-> MARKER_KEY \in DOMAIN s3,
                 age |-> IF MARKER_KEY \in DOMAIN s3
                         THEN now - s3[MARKER_KEY].last_modified ELSE 0]
          /\ pc' = IF parked # Unset /\ parked.pc \in {"dup_check", "search", "synthesize",
                                                         "s3_put", "s3_copy", "s3_delete",
                                                         "marker"}
                   THEN "slack"
                   ELSE CASE outcome = "client_raises" -> "slack"
                          [] outcome = "head_raises" -> "dup_check"
                          [] OTHER -> IF RateLimited(now, s3[MARKER_KEY].last_modified)
                                      THEN "slack" ELSE "dup_check"
    /\ Call("rate_limit_check")
    /\ feedback' = Unset
    /\ sentiment_calls' = <<>>
    /\ UNCHANGED <<storage, clock, invocations, env, deequ_context, issue_data,
                   context, payload, analysis, enhanced_kb, temp_key,
                   before>>
    /\ UNCHANGED apart

\* lines 418-436: the rate-limit check; head_object raises when the marker does
\* not exist and may raise when it does.  The verdict is not read again.
\* rate_check keeps what the check saw, and how many copies to the canonical
\* key had been made by then
RateLimitCheck ==
    /\ pc = "rate_check"
    /\ \E outcome \in {"client_raises", "head_raises", "head_ok"} :
          /\ outcome = "head_ok" => MARKER_KEY \in DOMAIN s3
          /\ rate_check' =
                [outcome |-> outcome,
                 copies |-> Len(copies),
                 marker |-> MARKER_KEY \in DOMAIN s3,
                 age |-> IF MARKER_KEY \in DOMAIN s3
                         THEN now - s3[MARKER_KEY].last_modified ELSE 0]
          /\ pc' = CASE outcome = "client_raises" -> "slack"
                     [] outcome = "head_raises" -> "dup_check"
                     [] OTHER -> IF RateLimited(now, s3[MARKER_KEY].last_modified)
                                 THEN "slack" ELSE "dup_check"
    /\ Call("rate_limit_check")
    /\ feedback' = Unset
    /\ sentiment_calls' = <<>>
    /\ UNCHANGED <<storage, clock, invocations, env, deequ_context, issue_data,
                   context, payload, analysis, enhanced_kb, temp_key,
                   before>>
    /\ UNCHANGED apart

\* lines 569-598: a failed call counts as "not a duplicate"
is_duplicate_content(answer) == answer = "YES"

\* lines 438-451: the duplicate check and the key terms
DuplicateCheck ==
    /\ pc = "dup_check"
    /\ \E answer \in {"YES", "NO", "raise"} :
          /\ pc' = IF is_duplicate_content(answer) THEN "slack"
                   ELSE IF extract_key_terms(IssueContent(issue_data)) = <<>> THEN "slack"
                   ELSE "search"
          /\ IF answer = "raise"
             THEN Call("duplicate_check_failed")
             ELSE UNCHANGED trace
    /\ UNCHANGED <<storage, clock, invocations, env, deequ_context, issue_data,
                   context, payload, analysis, verdict, learn, before>>
    /\ UNCHANGED apart

\* lines 453-455 and 465-492: no repository context, no update and no marker
SearchForLearning ==
    /\ pc = "search"
    /\ \E outcome \in {"found", "nothing", "raise"} :
          /\ pc' = IF outcome = "found" THEN "synthesize" ELSE "slack"
          /\ IF outcome = "raise"
             THEN Call("search_failed")
             ELSE UNCHANGED trace
    /\ UNCHANGED <<storage, clock, invocations, env, deequ_context, issue_data,
                   context, payload, analysis, verdict, learn, before>>
    /\ UNCHANGED apart

\* only the login of the agent is looked for
HasBotContent_login_only(issue_content) == InText(BotLogin, issue_content)

\* line 655
HasBotContent(issue_content) ==
    InText(BotLogin, issue_content) \/ InText("AI assistance", issue_content)

\* lines 651-683: the guard, the synthesis and the new blob
Synthesize ==
    /\ pc = "synthesize"
    /\ IF HasBotContent(IssueContent(issue_data))
       THEN /\ pc' = "marker"
            /\ UNCHANGED <<enhanced_kb, trace>>
       ELSE \E ok \in BOOLEAN :
               IF ok
               THEN /\ enhanced_kb' = deequ_context \o <<LearnedSection>>
                    /\ pc' = "s3_put"
                    /\ UNCHANGED trace
               ELSE /\ pc' = "marker"
                    /\ Call("synthesis_failed")
                    /\ UNCHANGED enhanced_kb
    /\ UNCHANGED <<storage, clock, invocations, env, deequ_context, issue_data,
                   context, payload, analysis, verdict, rate_check,
                   temp_key, before>>
    /\ UNCHANGED apart

\* the blob is put under the canonical key as well as under the temporary key
S3Put_direct ==
    /\ pc = "s3_put"
    /\ temp_key' = TempKey(now)
    /\ \E ok \in BOOLEAN :
          IF ok
          THEN /\ s3' = Put(Put(s3, TempKey(now), enhanced_kb, now), KB_KEY, enhanced_kb, now)
               /\ Call("put_tmp")
               /\ pc' = "s3_copy"
          ELSE /\ Call("put_tmp_failed")
               /\ pc' = "marker"
               /\ UNCHANGED s3
    /\ UNCHANGED <<copies, clock, invocations, env, deequ_context, issue_data,
                   context, payload, analysis, verdict, rate_check,
                   enhanced_kb, before>>
    /\ UNCHANGED apart

\* lines 618-631: the blob is put under the temporary key
S3Put ==
    /\ pc = "s3_put"
    /\ temp_key' = TempKey(now)
    /\ \E ok \in BOOLEAN :
          IF ok
          THEN /\ s3' = Put(s3, TempKey(now), enhanced_kb, now)
               /\ Call("put_tmp")
               /\ pc' = "s3_copy"
          ELSE /\ Call("put_tmp_failed")
               /\ pc' = "marker"
               /\ UNCHANGED s3
    /\ UNCHANGED <<copies, clock, invocations, env, deequ_context, issue_data,
                   context, payload, analysis, verdict, rate_check,
                   enhanced_kb, before>>
    /\ UNCHANGED apart

\* lines 633-639: the temporary key is copied to the canonical key; the copy
\* raises when the temporary key is gone
S3Copy ==
    /\ pc = "s3_copy"
    /\ \E ok \in BOOLEAN :
          /\ ok => temp_key \in DOMAIN s3
          /\ IF ok
             THEN /\ s3' = Put(s3, KB_KEY, s3[temp_key].body, now)
                  /\ copies' = Append(copies, now)
                  /\ Call("copy_object")
                  /\ pc' = "s3_delete"
             ELSE /\ Call("copy_object_failed")
                  /\ pc' = "marker"
                  /\ UNCHANGED <<s3, copies>>
    /\ UNCHANGED <<clock, invocations, env, deequ_context, issue_data,
                   context, payload, analysis, verdict, learn, before>>
    /\ UNCHANGED apart

\* lines 641-649 and 684-686: the temporary key is deleted; only then does
\* safe_s3_update return True and the in-memory knowledge base follow
S3Delete ==
    /\ pc = "s3_delete"
    /\ \E ok \in BOOLEAN :
          IF ok
          THEN /\ s3' = Delete(s3, temp_key)
               /\ deequ_context' = enhanced_kb
               /\ Call("delete_tmp")
          ELSE /\ Call("delete_tmp_failed")
               /\ UNCHANGED <<s3, deequ_context>>
    /\ pc' = "marker"
    /\ UNCHANGED <<copies, clock, invocations, env, issue_data, context,
                   payload, analysis, verdict, learn, before>>
    /\ UNCHANGED apart

\* lines 458-463: the marker is refreshed
MarkerPut ==
    /\ pc = "marker"
    /\ \E ok \in BOOLEAN :
          IF ok
          THEN /\ s3' = Put(s3, MARKER_KEY, <<"updated">>, now)
               /\ Call("put_marker")
          ELSE /\ Call("put_marker_failed")
               /\ UNCHANGED s3
    /\ pc' = "slack"
    /\ UNCHANGED <<copies, clock, invocations, env, deequ_context, issue_data,
                   context, payload, analysis, verdict, learn, before>>
    /\ UNCHANGED apart

\* lines 711-715 and 787-794: the POST is issued when a webhook is set
send_to_slack == IF slack_webhook THEN Call("slack") ELSE UNCHANGED trace

\* lines 873-879: the Slack notification, then the escalation log
Escalate ==
    /\ pc = "slack"
    /\ send_to_slack
    /\ pc' = IF log_escalation_pattern_raises(issue_data) THEN "raised" ELSE "done"
    /\ UNCHANGED <<storage, clock, invocations, env, deequ_context, issue_data,
                   context, payload, analysis, verdict, learn, before>>
    /\ UNCHANGED apart

\* the process ends and its memory is gone
Exit ==
    /\ pc \in {"done", "raised", "exit"}
    /\ pc' = "idle"
    /\ github_token' = FALSE
    /\ slack_webhook' = FALSE
    /\ deequ_context' = Unset
    /\ issue_data' = Unset
    /\ enhanced_context' = Unset
    /\ content' = <<>>
    /\ payload' = Unset
    /\ analysis' = Unset
    /\ feedback' = Unset
    /\ sentiment_calls' = <<>>
    /\ rate_check' = Unset
    /\ kb_before' = Unset
    /\ marker_before' = Unset
    /\ enhanced_kb' = Unset
    /\ temp_key' = Unset
    /\ trace' = <<>>
    /\ UNCHANGED <<storage, clock, invocations>>
    /\ UNCHANGED apart

Next ==
    \/ Tick
    \/ Main
    \/ AssembleContext
    \/ Decide
    \/ Respond
    \/ Feedback
    \/ RateLimitCheck
    \/ DuplicateCheck
    \/ SearchForLearning
    \/ Synthesize
    \/ S3Put
    \/ S3Copy
    \/ S3Delete
    \/ MarkerPut
    \/ Escalate
    \/ Exit

Spec == Init /\ [][Next]_vars

\* ------------------------------------- the feedback gate on its own
\* SeqsUpTo(S, n): the sequences over S of length at most n
SeqsUpTo(S, n) == UNION { [1..k -> S] : k \in 0..n }

\* the issues handed to enhance_knowledge_base_with_validation: any list of
\* comments of at most MaxComments, a body or none
FeedbackIssues ==
    { Issue(<<"help">>, body, comments) :
        body \in {StrBody(<<"thanks">>), NoneBody},
        comments \in SeqsUpTo({BotComment, UserComment, ShortComment}, MaxComments) }

\* the Analyses handed to it: main hands over an escalating one (line 871), the
\* function takes any (lines 407, 415)
FeedbackAnalyses == { fallback_analysis, Interpret(AnswerText) }

\* line 393: enhance_knowledge_base_with_validation is entered
FeedbackInit ==
    /\ s3 = EmptyBucket
    /\ now = 0
    /\ invocations = 1
    /\ copies = <<>>
    /\ pc = "feedback"
    /\ github_token = FALSE
    /\ slack_webhook = FALSE
    /\ deequ_context = PlaceholderKB
    /\ issue_data \in FeedbackIssues
    /\ enhanced_context = Unset
    /\ content = <<>>
    /\ payload = Unset
    /\ analysis \in FeedbackAnalyses
    /\ feedback = Unset
    /\ sentiment_calls = <<>>
    /\ rate_check = Unset
    /\ kb_before = Unset
    /\ marker_before = Unset
    /\ enhanced_kb = Unset
    /\ temp_key = Unset
    /\ trace = <<>>
    /\ environ = Unset
    /\ parked = Unset

FeedbackNext == Feedback

FeedbackSpec == FeedbackInit /\ [][FeedbackNext]_vars

\* ---------------------------------------- smart_truncate on its own
\* the texts of up to MaxSections sections that are longer than the target
LongTexts ==
    { text \in UNION { [1..k -> {BigSectionA, BigSectionB, BigSectionC, EnvSection,
                                  LearnedSection, RepoSection, FlatSection}] :
                        k \in 1..MaxSections } :
        BlobChars(text) > TargetChars }

\* the plain section's counterpart of the same size that mentions the words
AsError(id) ==
    CASE id = "plain2996" -> "error2996"
      [] id = "plain4996" -> "error4996"
      [] id = "plain4997" -> "error4997"
      [] OTHER -> "error6997"

\* the knowledge bases of 40,000 characters in 8 sections of which only the
\* sixth mentions error and exception
ScenarioTexts ==
    { [i \in 1..8 |-> IF i = 6 THEN AsError(text[i]) ELSE text[i]] :
        text \in { t \in [1..8 -> PlainSections] : BlobChars(t) = 40000 } }

\* the issues from which exactly the two terms error and exception are extracted
ScenarioIssues ==
    { issue \in Issues :
        extract_key_terms(issue.title \o <<" ">> \o Render(issue.body))
            = <<"error", "exception">> }

\* line 174: smart_truncate is entered
TruncateInit ==
    /\ s3 = EmptyBucket
    /\ now = 0
    /\ invocations = 1
    /\ copies = <<>>
    /\ pc = "truncate"
    /\ github_token = FALSE
    /\ slack_webhook = FALSE
    /\ deequ_context = PlaceholderKB
    /\ \/ issue_data \in Issues /\ content \in LongTexts
       \/ issue_data \in ScenarioIssues /\ content \in ScenarioTexts
    /\ enhanced_context = Unset
    /\ payload = Unset
    /\ analysis = Unset
    /\ feedback = Unset
    /\ sentiment_calls = <<>>
    /\ rate_check = Unset
    /\ kb_before = Unset
    /\ marker_before = Unset
    /\ enhanced_kb = Unset
    /\ temp_key = Unset
    /\ trace = <<>>
    /\ environ = Unset
    /\ parked = Unset

\* lines 174-211: smart_truncate returns
Truncate ==
    /\ pc = "truncate"
    /\ enhanced_context' = smart_truncate(content, issue_data)
    /\ pc' = "truncated"
    /\ UNCHANGED <<storage, clock, invocations, env, deequ_context, issue_data,
                   content, payload, analysis, verdict, learn, before, trace>>
    /\ UNCHANGED apart

TruncateNext == Truncate

TruncateSpec == TruncateInit /\ [][TruncateNext]_vars

\* ------------------------------------------ the constructor on its own
\* the value of an environment variable: None when it is not set, else a text
EnvNone == [none |-> TRUE, text |-> <<>>]
EnvStr(text) == [none |-> FALSE, text |-> text]

\* os.getenv(name, default)
Getenv(e, name, default) == IF e[name].none THEN default ELSE e[name]

\* the truth value of an optional string: None and '' are false
Truthy(value) == ~value.none /\ value.text # <<>>

\* lines 279-281: the prompt used when BOT_SYSTEM_PROMPT is not set
get_default_prompt ==
    EnvStr(<<"System prompt", "not configured", "-", "BOT_SYSTEM_PROMPT",
             "environment variable required">>)

\* the variables DeequIssueBot() reads, each one not set, or empty where the
\* code tests for it, or set
Environs ==
    [ GITHUB_TOKEN : {EnvNone, EnvStr(<<"token">>)},
      SLACK_WEBHOOK_URL : {EnvNone, EnvStr(<<"https://hooks">>)},
      BOT_SYSTEM_PROMPT : {EnvNone, EnvStr(<<>>), EnvStr(<<"You", "triage">>),
                           EnvStr(<<"reply", "not configured", "if", "unsure">>)},
      BEDROCK_MODEL_ID : {EnvNone, EnvStr(<<>>), EnvStr(<<"model">>)},
      BEDROCK_API_VERSION : {EnvNone, EnvStr(<<>>), EnvStr(<<"bedrock-2023-05-31">>)},
      KB_S3_BUCKET : {EnvNone, EnvStr(<<"team-kb">>)},
      DEEQU_KNOWLEDGE_BASE : {EnvNone, EnvStr(<<>>), EnvStr(EnvKB)} ]

\* line 16: DeequIssueBot() is entered
ConstructInit ==
    /\ \/ s3 = EmptyBucket
       \/ \E kb \in InitialKBs : s3 = Put(EmptyBucket, KB_KEY, kb, 0)
    /\ now = 0
    /\ invocations = 1
    /\ copies = <<>>
    /\ pc = "construct"
    /\ github_token = FALSE
    /\ slack_webhook = FALSE
    /\ deequ_context = Unset
    /\ issue_data = Unset
    /\ enhanced_context = Unset
    /\ content = <<>>
    /\ payload = Unset
    /\ analysis = Unset
    /\ feedback = Unset
    /\ sentiment_calls = <<>>
    /\ rate_check = Unset
    /\ kb_before = Unset
    /\ marker_before = Unset
    /\ enhanced_kb = Unset
    /\ temp_key = Unset
    /\ trace = <<>>
    /\ environ \in Environs
    /\ parked = Unset

\* lines 16-38 and 40-67: the constructor; head_bucket and get_object may
\* raise, and get_object raises when the key does not exist.  KB_S3_BUCKET is
\* read with the default 'deequ-knowledge-base' (line 45) and is not tested: s3
\* is the bucket of either name
Construct ==
    /\ pc = "construct"
    /\ LET system_prompt == Getenv(environ, "BOT_SYSTEM_PROMPT", get_default_prompt)
           model_id == Getenv(environ, "BEDROCK_MODEL_ID", EnvNone)
           api_version == Getenv(environ, "BEDROCK_API_VERSION", EnvNone)
           kb_content == Getenv(environ, "DEEQU_KNOWLEDGE_BASE", EnvNone)
       IN  IF \/ ~Truthy(model_id)
              \/ ~Truthy(system_prompt) \/ InText("not configured", system_prompt.text)
              \/ ~Truthy(api_version)
           THEN \* lines 26-31: ValueError
                /\ pc' = "raised"
                /\ UNCHANGED <<env, deequ_context, trace>>
           ELSE \E head_ok, get_ok \in BOOLEAN :
                   /\ get_ok => (head_ok /\ KB_KEY \in DOMAIN s3)
                   /\ github_token' = Truthy(Getenv(environ, "GITHUB_TOKEN", EnvNone))
                   /\ slack_webhook' = Truthy(Getenv(environ, "SLACK_WEBHOOK_URL", EnvNone))
                   /\ deequ_context' = load_deequ_context(s3, get_ok, Truthy(kb_content))
                   /\ trace' = IF ~head_ok THEN <<"head_bucket_failed">>
                               ELSE IF ~get_ok THEN <<"head_bucket", "get_object_failed">>
                               ELSE <<"head_bucket", "get_object">>
                   /\ pc' = "constructed"
    /\ UNCHANGED <<storage, clock, invocations, issue_data, context, payload,
                   analysis, verdict, learn, before, apart>>

ConstructNext == Construct

ConstructSpec == ConstructInit /\ [][ConstructNext]_vars

\* ------------------------------------------- two invocations at once
\* the locals of the running invocation
Locals ==
    [pc |-> pc, github_token |-> github_token, slack_webhook |-> slack_webhook,
     deequ_context |-> deequ_context, issue_data |-> issue_data,
     enhanced_context |-> enhanced_context, content |-> content,
     payload |-> payload, analysis |-> analysis, feedback |-> feedback,
     sentiment_calls |-> sentiment_calls, rate_check |-> rate_check,
     kb_before |-> kb_before, marker_before |-> marker_before,
     enhanced_kb |-> enhanced_kb, temp_key |-> temp_key, trace |-> trace]

\* the running invocation has the locals l
Running(l) ==
    /\ pc = l.pc
    /\ github_token = l.github_token
    /\ slack_webhook = l.slack_webhook
    /\ deequ_context = l.deequ_context
    /\ issue_data = l.issue_data
    /\ enhanced_context = l.enhanced_context
    /\ content = l.content
    /\ payload = l.payload
    /\ analysis = l.analysis
    /\ feedback = l.feedback
    /\ sentiment_calls = l.sentiment_calls
    /\ rate_check = l.rate_check
    /\ kb_before = l.kb_before
    /\ marker_before = l.marker_before
    /\ enhanced_kb = l.enhanced_kb
    /\ temp_key = l.temp_key
    /\ trace = l.trace

\* the issues of two invocations triggered at once: one the agent learns from,
\* one it does not
RaceIssues ==
    { Issue(<<"DQDL", "Error">>, StrBody(<<"thanks">>), <<BotComment, ShortComment, UserComment>>),
      Issue(<<"help">>, StrBody(<<"thanks">>), <<UserComment, BotComment>>) }

\* the locals of an invocation that has reached the rate-limit check (line
\* 418) on an issue whose comments could not be scored, without a token and a
\* webhook, its knowledge base loaded from the bucket
AtRateCheck(issue) ==
    LET replies == [j \in ScorablePlaces(issue.recent_comments) |->
                       [kind |-> "raise", text |-> <<>>]]
    IN  [pc |-> "rate_check", github_token |-> FALSE, slack_webhook |-> FALSE,
         deequ_context |-> load_deequ_context(s3, TRUE, FALSE), issue_data |-> issue,
         enhanced_context |-> Unset, content |-> <<>>,
         payload |-> Unset, analysis |-> fallback_analysis,
         feedback |-> analyze_customer_feedback(issue.recent_comments, replies),
         sentiment_calls |-> SentimentCalls(issue.recent_comments, replies, 1, FALSE),
         rate_check |-> Unset,
         kb_before |-> ObjectAt(s3, KB_KEY), marker_before |-> ObjectAt(s3, MARKER_KEY),
         enhanced_kb |-> Unset, temp_key |-> Unset,
         trace |-> <<"get_enhanced_context", "invoke_model">>]

\* two invocations have been triggered within the same second and both have
\* reached the rate-limit check; the marker, if there is one, is fresh or a
\* cooldown old
RaceInit ==
    /\ now = Cooldown
    /\ \E kb \in InitialKBs :
          \/ s3 = Put(EmptyBucket, KB_KEY, kb, 0)
          \/ \E last_modified \in {0, Cooldown} :
                s3 = Put(Put(EmptyBucket, KB_KEY, kb, 0), MARKER_KEY, <<"updated">>, last_modified)
    /\ invocations = 2
    /\ copies = <<>>
    /\ environ = Unset
    /\ \E mine, other \in RaceIssues :
          /\ Running(AtRateCheck(mine))
          /\ parked = AtRateCheck(other)

\* the scheduler runs the other invocation: each is a process of its own, with
\* its own memory, and they share the bucket and the clock
Switch ==
    /\ parked # Unset
    /\ parked' = Locals
    /\ pc' = parked.pc
    /\ github_token' = parked.github_token
    /\ slack_webhook' = parked.slack_webhook
    /\ deequ_context' = parked.deequ_context
    /\ issue_data' = parked.issue_data
    /\ enhanced_context' = parked.enhanced_context
    /\ content' = parked.content
    /\ payload' = parked.payload
    /\ analysis' = parked.analysis
    /\ feedback' = parked.feedback
    /\ sentiment_calls' = parked.sentiment_calls
    /\ rate_check' = parked.rate_check
    /\ kb_before' = parked.kb_before
    /\ marker_before' = parked.marker_before
    /\ enhanced_kb' = parked.enhanced_kb
    /\ temp_key' = parked.temp_key
    /\ trace' = parked.trace
    /\ UNCHANGED <<storage, clock, invocations, environ>>

\* lines 418-463 of both invocations, interleaved at every call
RaceNext ==
    \/ Switch
    \/ RateLimitCheck
    \/ DuplicateCheck
    \/ SearchForLearning
    \/ Synthesize
    \/ S3Put
    \/ S3Copy
    \/ S3Delete
    \/ MarkerPut

RaceSpec == RaceInit /\ [][RaceNext]_vars

\* ============================================================= claims
Called(op) == \E i \in 1..Len(trace) : trace[i] = op

CalledBefore(first, i) == \E j \in 1..(i - 1) : trace[j] = first

\* the invocation is over: main() returned or raised
Over == pc \in {"done", "raised"}

\* the steps of the learning: the rate-limit check and the writes
LearnCalls ==
    {"rate_limit_check", "put_tmp", "put_tmp_failed", "copy_object",
     "copy_object_failed", "delete_tmp", "delete_tmp_failed", "put_marker",
     "put_marker_failed"}

\* C1: no two successful copies to the canonical key are less than a cooldown
\* apart, whichever calls fail
C1_WritesACooldownApart ==
    \A i, j \in 1..Len(copies) : i < j => copies[j] - copies[i] >= Cooldown

\* the put to the temporary key or the copy failed in the running invocation
FailedPersist == Called("put_tmp_failed") \/ Called("copy_object_failed")

\* C2: the canonical key changes only in the copy step, after the put of the
\* whole new blob to the temporary key, and to that blob; and after a failed put
\* or copy it holds what it held before
C2_CanonicalOnlyByCopy ==
    [][ /\ ObjectAt(s3', KB_KEY) # ObjectAt(s3, KB_KEY) =>
              /\ pc = "s3_copy"
              /\ Called("put_tmp")
              /\ temp_key \in DOMAIN s3
              /\ s3[temp_key].body = enhanced_kb
              /\ s3'[KB_KEY].body = enhanced_kb
        /\ FailedPersist' => ObjectAt(s3', KB_KEY) = kb_before'
      ]_vars

\* C2, witness: the copy has written the new blob to the canonical key
C2_Witness ==
    /\ pc = "s3_delete"
    /\ s3[KB_KEY].body = enhanced_kb
    /\ ObjectAt(s3, KB_KEY) # kb_before

\* C3: an invocation that fetched the issue and has a token issues a comment
C3_AlwaysAcknowledged ==
    (Over /\ issue_data # Unset /\ github_token) =>
        (Called("post_answer") \/ Called("post_ack"))

\* the text holds the sentinel at some place
Occurs(sub, text) ==
    \E i \in 1..(Len(text) - Len(sub) + 1) : SubSeq(text, i, i + Len(sub) - 1) = sub

\* C4: on a well-formed payload, should_escalate is true exactly when the
\* sentinel occurs in the returned text, case-sensitively, at any place
C4_EscalateIffSentinel ==
    (pc = "respond" /\ payload.kind = "text") =>
        (analysis.should_escalate <=> Occurs(Sentinel, payload.text))

\* C4, witness: the sentinel is in the middle of the text and the Analysis escalates
C4_Witness ==
    /\ pc = "respond"
    /\ payload.kind = "text"
    /\ Occurs(Sentinel, payload.text)
    /\ ~StartsWith(Sentinel, payload.text)
    /\ Len(payload.text) > Len(Sentinel) + 2
    /\ analysis.should_escalate

\* C5: when the decision call raises or its payload has no content, the
\* fallback Analysis is returned and nothing is raised
C5_FallbackNeverRaises ==
    (payload # Unset /\ payload.kind # "text") =>
        (pc = "respond" /\ analysis = fallback_analysis)

\* the calls with an effect outside the process
Effects ==
    {"post_answer", "post_ack", "slack", "put_tmp", "put_tmp_failed", "copy_object",
     "copy_object_failed", "put_marker", "put_marker_failed"}

\* C6: the context is assembled before the decision call, and the decision
\* call is over before any comment, notification or write
C6_Ordering ==
    \A i \in 1..Len(trace) :
        /\ trace[i] = "invoke_model" => CalledBefore("get_enhanced_context", i)
        /\ trace[i] \in Effects => CalledBefore("invoke_model", i)

\* C6, witness: an invocation that commented, wrote the knowledge base and the
\* marker and notified Slack
C6_Witness ==
    /\ pc = "done"
    /\ Called("post_ack")
    /\ Called("copy_object")
    /\ Called("put_marker")
    /\ Called("slack")

\* a call of a learning step failed
LearnFailed ==
    \E op \in {"duplicate_check_failed", "search_failed", "synthesis_failed",
               "put_tmp_failed", "copy_object_failed", "delete_tmp_failed"} : Called(op)

\* C7: after a failed call in a learning step neither the canonical key nor
\* the marker is written in the invocation
C7_FailureAbortsLearning ==
    LearnFailed => (~Called("copy_object") /\ ~Called("put_marker"))

\* C8: the canonical key is written only if the rate-limit check found no
\* marker or one more than a cooldown old
C8_WriteOnlyPastCooldown ==
    Called("copy_object") => (~rate_check.marker \/ rate_check.age > Cooldown)

\* the verdict of the running invocation is negative
Negative == feedback # Unset /\ feedback.sentiment = "negative"

C10_NegativeSkipsQuietly ==
    Negative => ((\A op \in LearnCalls : ~Called(op)) /\ pc # "raised")

\* the gate has run and its verdict is not negative
NotNegative == feedback # Unset /\ feedback.sentiment # "negative"

\* the verdict is positive with a confidence above 0.4
ConfidentPositive ==
    feedback.sentiment = "positive" /\ ConfidenceAbove(feedback, LearnConfidence)

\* C11, as claimed: with a verdict that is not negative the rate-limit check is
\* reached exactly when the verdict is positive with confidence > 0.4, or
\* neutral with an escalating Analysis
C11_LearnExactlyWhen ==
    NotNegative =>
        (pc = "rate_check" <=>
            \/ ConfidentPositive
            \/ feedback.sentiment = "neutral" /\ analysis.should_escalate)

\* C11, amended: with a verdict that is not negative the rate-limit check is
\* reached exactly when the Analysis escalates, whatever the confidence of a
\* positive verdict; otherwise the function returns, and the gate writes nothing
C11_LearnExactlyWhenEscalating ==
    NotNegative =>
        /\ pc = "rate_check" <=> analysis.should_escalate
        /\ pc \in {"rate_check", "slack"}
        /\ s3 = EmptyBucket
        /\ copies = <<>>

\* C11, witness: a positive verdict of confidence 0.4 reaches the rate-limit check
C11_Witness ==
    /\ NotNegative
    /\ feedback.sentiment = "positive"
    /\ ~ConfidentPositive
    /\ pc = "rate_check"

\* the place of a call in the trace, 0 when it was not made
PlaceOf(op) == IF Called(op) THEN CHOOSE i \in 1..Len(trace) : trace[i] = op ELSE 0

\* C12: an invocation whose Analysis escalates has, when it is over, posted the
\* acknowledgement (given a token) and after it notified Slack (given a
\* webhook), whatever the learning between them did
C12_AckThenSlack ==
    (Over /\ analysis # Unset /\ analysis.should_escalate) =>
        /\ github_token => Called("post_ack")
        /\ slack_webhook => Called("slack")
        /\ (github_token /\ slack_webhook) => PlaceOf("post_ack") < PlaceOf("slack")

\* the Analysis of the running invocation does not escalate
Answering == analysis # Unset /\ ~analysis.should_escalate

\* the number of calls of op in the trace
Count(op) == Cardinality({i \in 1..Len(trace) : trace[i] = op})

\* C13: an invocation whose Analysis does not escalate posts the response as
\* its only comment (given a token) and changes nothing else: the canonical key
\* and the marker hold what they held when it started, Slack is not notified,
\* no learning step runs and the in-memory knowledge base stays as loaded
C13_DirectAnswerOnly ==
    /\ [](Answering =>
            /\ pc \in {"respond", "done"}
            /\ ~Called("post_ack")
            /\ ~Called("slack")
            /\ \A op \in LearnCalls : ~Called(op)
            /\ ObjectAt(s3, KB_KEY) = kb_before
            /\ ObjectAt(s3, MARKER_KEY) = marker_before
            /\ pc = "respond" => ~Called("post_answer")
            /\ pc = "done" => Count("post_answer") = (IF github_token THEN 1 ELSE 0))
    /\ [][(Answering /\ pc = "respond") =>
            /\ deequ_context' = deequ_context
            /\ s3' = s3
            /\ pc' = "done"]_vars

\* C13, witness: a completed invocation that posted a direct answer while the
\* canonical key and the marker exist
C13_Witness ==
    /\ Answering
    /\ pc = "done"
    /\ Called("post_answer")
    /\ KB_KEY \in DOMAIN s3
    /\ MARKER_KEY \in DOMAIN s3

\* a comment of the agent
IsBot(comment) == comment.login = BotLogin

\* no comment of the agent comes before a comment of a human
NoBotBeforeHuman(comments) ==
    ~\E i, j \in 1..Len(comments) : i < j /\ IsBot(comments[i]) /\ ~IsBot(comments[j])

\* C14: when no comment of the agent comes before a comment of a human, the
\* verdict of analyze_customer_feedback is neutral with confidence 0 and no
\* comment was scored
C14_NoSignalIsNeutral ==
    (feedback # Unset /\ NoBotBeforeHuman(issue_data.recent_comments)) =>
        /\ feedback.sentiment = "neutral"
        /\ feedback.total = 0
        /\ feedback.count = 0

\* C14, witness: the verdict on human comments followed by the agent's only comment
C14_Witness ==
    /\ feedback # Unset
    /\ Len(issue_data.recent_comments) = MaxComments
    /\ issue_data.recent_comments[1] = UserComment
    /\ IsBot(issue_data.recent_comments[MaxComments])
    /\ NoBotBeforeHuman(issue_data.recent_comments)
    /\ feedback.sentiment = "neutral"

\* the places of the human comments after the first comment of the agent
FollowingHumans(comments) ==
    {j \in 1..Len(comments) :
        ~IsBot(comments[j]) /\ \E i \in 1..(j - 1) : IsBot(comments[i])}

\* the places of the comments that were scored
ScoredPlaces == {sentiment_calls[k].place : k \in 1..Len(sentiment_calls)}

\* the reply to a sentiment call is a text that float() parses
Parseable(reply) == reply.kind = "text" /\ ParseFloat(Strip(reply.text)) # <<>>

\* the calls whose reply was parsed, and the sum of their scores
ParsedCalls == SelectSeq(sentiment_calls, LAMBDA call : Parseable(call.reply))
RECURSIVE SumScores(_)
SumScores(calls) ==
    IF calls = <<>> THEN 0 ELSE Head(calls).score[1] + SumScores(Tail(calls))
ParsedTotal == SumScores(ParsedCalls)

\* the mean of the verdict is that of the parsed scores: an unparseable score
\* is in neither the sum nor the count
MeanOfParsed ==
    /\ feedback.count = Len(ParsedCalls)
    /\ feedback.total = Abs(ParsedTotal)
    /\ feedback.sentiment = "positive" => ParsedTotal > 0
    /\ feedback.sentiment = "negative" => ParsedTotal < 0

\* C15, as claimed: every human comment after the first comment of the agent
\* is scored, whatever its length, and the mean is that of the parsed scores
C15_MeanOverEveryFollowing ==
    feedback # Unset =>
        /\ ScoredPlaces = FollowingHumans(issue_data.recent_comments)
        /\ MeanOfParsed

\* C15, amended: the human comments after the first comment of the agent whose
\* stripped body is longer than 10 characters are scored, the shorter ones are
\* not, and the mean is that of the parsed scores
C15_MeanOverLongFollowing ==
    feedback # Unset =>
        /\ ScoredPlaces = {j \in FollowingHumans(issue_data.recent_comments) :
                              issue_data.recent_comments[j].long}
        /\ MeanOfParsed

\* C15, witness: of two scored comments after the agent's one had an
\* unparseable score, and the mean is the score of the other
C15_Witness ==
    /\ feedback # Unset
    /\ Len(sentiment_calls) = 2
    /\ Len(ParsedCalls) = 1
    /\ feedback.count = 1
    /\ feedback.total # 0

\* the class of a mean of t / n, t and n > 0 in tenths
ClassOf(t, n) ==
    IF t > SentimentThreshold * n THEN "positive"
    ELSE IF t < -SentimentThreshold * n THEN "negative"
    ELSE "neutral"

\* C16: with at least one parsed score the verdict is the class of the mean m:
\* positive when m > 0.3, negative when m < -0.3, neutral otherwise, 0.3 and
\* -0.3 included; the confidence is |m| and lies in [0, 1]
C16_ClassifiedByMean ==
    (feedback # Unset /\ Len(ParsedCalls) > 0) =>
        /\ \A k \in 1..Len(ParsedCalls) :
              ParsedCalls[k].score[1] \in -ScoreOne..ScoreOne
        /\ feedback.sentiment = ClassOf(ParsedTotal, Len(ParsedCalls))
        /\ feedback.count = Len(ParsedCalls)
        /\ feedback.total = Abs(ParsedTotal)
        /\ feedback.total >= 0
        /\ feedback.total <= ScoreOne * feedback.count

\* C16, witness: two scores whose mean is exactly 0.3 give a neutral verdict
C16_Witness ==
    /\ feedback # Unset
    /\ Len(ParsedCalls) = 2
    /\ ParsedTotal = SentimentThreshold * 2
    /\ feedback.sentiment = "neutral"
    /\ feedback.total = SentimentThreshold * feedback.count

\* the characters of a decimal number
Digits == {"0", "1", "2", "3", "4", "5", "6", "7", "8", "9"}

\* the text, stripped, is a decimal number: digits with a sign or a point
IsNumeric(text) ==
    LET t == Strip(text)
    IN  /\ \A i \in 1..Len(t) : t[i] \in Digits \cup {"-", "+", "."}
        /\ \E i \in 1..Len(t) : t[i] \in Digits

\* C17: every call of get_sentiment_score returns a score within [-1.0, 1.0]
\* or None; it returns None, never a number, when the sentiment call raises or
\* its reply is not a number
C17_ScoreInRangeOrUnparseable ==
    \A k \in 1..Len(sentiment_calls) :
        LET call == sentiment_calls[k]
        IN  /\ call.score # <<>> => call.score[1] \in -ScoreOne..ScoreOne
            /\ call.reply.kind = "raise" => call.score = <<>>
            /\ (call.reply.kind = "text" /\ ~IsNumeric(call.reply.text)) =>
                  call.score = <<>>

\* r is c with some of its elements left out, the order kept
RECURSIVE IsSubseq(_, _)
IsSubseq(r, c) ==
    IF r = <<>> THEN TRUE
    ELSE IF c = <<>> THEN FALSE
    ELSE IF Head(r) = Head(c) THEN IsSubseq(Tail(r), Tail(c))
    ELSE IsSubseq(r, Tail(c))

\* the search terms smart_truncate extracts from the issue
TruncateTerms ==
    extract_key_terms(issue_data.title \o <<" ">> \o Render(issue_data.body))

\* the scores of the sections of the text, by place
Scores == [i \in 1..Len(content) |-> SectionScore(TruncateTerms, content, i)]

\* with the scores sc, the section at place i goes before the one at place j:
\* its score is higher, or the same and it comes first
Before(sc, i, j) == sc[i] > sc[j] \/ (sc[i] = sc[j] /\ i < j)

\* the sections by rank: the k-th is the one that exactly k - 1 go before
Ranked ==
    LET sc == Scores
    IN  [k \in 1..Len(content) |->
            content[CHOOSE i \in 1..Len(content) :
                        Cardinality({j \in 1..Len(content) : Before(sc, j, i)}) = k - 1]]

\* smart_truncate has returned on a text longer than the target
TruncatedLong == pc = "truncated" /\ BlobChars(content) > TargetChars

\* C18, as claimed: the result of smart_truncate on a text longer than 28,000
\* characters is at most 28,000 long, and for more than one section it is made
\* of whole sections of the text in the order they have in the text
C18_WholeSectionsInOrder ==
    TruncatedLong =>
        /\ enhanced_context.chars <= TargetChars
        /\ Len(content) > 1 =>
              /\ enhanced_context.chars = BlobChars(enhanced_context.sections)
              /\ IsSubseq(enhanced_context.sections, content)

\* C18, amended: the result is at most 28,000 long, and for more than one
\* section it is made of whole sections of the text in the order of their
\* score, the highest first and ties in the order of the text: the longest run
\* of the highest-ranked sections that stays under 28,000, possibly none
C18_WholeSectionsByScore ==
    TruncatedLong =>
        /\ enhanced_context.chars <= TargetChars
        /\ Len(content) = 1 => enhanced_context.chars = TargetChars
        /\ Len(content) > 1 =>
              LET ranked == Ranked
                  n == Len(enhanced_context.sections)
              IN  /\ n <= Len(content)
                  /\ enhanced_context.sections = SubSeq(ranked, 1, n)
                  /\ enhanced_context.chars = BlobChars(enhanced_context.sections)
                  /\ enhanced_context.chars < TargetChars
                  /\ n < Len(content) =>
                        BlobChars(SubSeq(ranked, 1, n + 1)) >= TargetChars

\* C18, witness: a result of two whole sections that are not in the order
\* they have in the text
C18_Witness ==
    /\ TruncatedLong
    /\ Len(content) > 1
    /\ Len(enhanced_context.sections) = 2
    /\ ~IsSubseq(enhanced_context.sections, content)

\* smart_truncate has returned on a knowledge base of 40,000 characters in 8
\* sections for an issue with 2 search terms, both found in section 6 only
InScenario ==
    /\ pc = "truncated"
    /\ Len(content) = 8
    /\ BlobChars(content) = 40000
    /\ Len(TruncateTerms) = 2
    /\ \A i \in 1..8 : TermScore(TruncateTerms, content[i]) = (IF i = 6 THEN 2 ELSE 0)

\* section 6 is in the result
IncludesSix ==
    \E k \in 1..Len(enhanced_context.sections) : enhanced_context.sections[k] = content[6]

\* the score of section 6 is above that of an earlier section without a match
Outweighs ==
    \E i \in 1..5 :
        /\ TermScore(TruncateTerms, content[i]) = 0
        /\ SectionScore(TruncateTerms, content, 6) > SectionScore(TruncateTerms, content, i)

C20_ContextWithinBudget ==
    (pc = "decide" /\ enhanced_context # Unset) =>
        enhanced_context.chars \div CharsPerToken <= TokenLimit

\* safe_s3_update has been called and has returned in the running invocation
PersistOver ==
    /\ pc \in {"marker", "slack", "done", "raised"}
    /\ Called("put_tmp") \/ Called("put_tmp_failed")

\* the in-memory knowledge base is the one the new blob was built from
MemoryUnchanged == enhanced_kb = deequ_context \o <<LearnedSection>>

\* C21: when safe_s3_update has returned, the in-memory knowledge base is the
\* content of the canonical key if the attempt wrote the canonical key, and is
\* unchanged if it did not, whichever of the put, the copy and the delete failed
C21_MemoryMatchesCanonical ==
    PersistOver =>
        IF Called("copy_object")
        THEN deequ_context = s3[KB_KEY].body
        ELSE MemoryUnchanged

\* C22: once safe_s3_update has returned, with True or with False, the
\* temporary key it wrote no longer exists in the bucket
C22_TempKeyReclaimed ==
    (PersistOver /\ Called("put_tmp")) => temp_key \notin DOMAIN s3

\* the title or the body of the issue holds a marker of agent authorship
AgentAuthored ==
    \E i \in 1..Len(IssueContent(issue_data)) :
        IssueContent(issue_data)[i] \in {"github-actions[bot]", "AI assistance"}

\* the storage calls of safe_s3_update
PersistCalls ==
    {"put_tmp", "put_tmp_failed", "copy_object", "copy_object_failed",
     "delete_tmp", "delete_tmp_failed"}

RequiredOptions ==
    {"BOT_SYSTEM_PROMPT", "BEDROCK_MODEL_ID", "BEDROCK_API_VERSION", "KB_S3_BUCKET"}

\* DeequIssueBot() has returned or raised
ConstructOver == pc \in {"constructed", "raised"}

\* C24: when a required option is not set the constructor raises: no bot is
\* constructed on a default put in its place
C24_MissingConfigIsFatal ==
    (ConstructOver /\ \E option \in RequiredOptions : environ[option].none) =>
        pc = "raised"

\* the injected default is set and is not empty
DefaultInjected ==
    ~environ.DEEQU_KNOWLEDGE_BASE.none /\ Len(environ.DEEQU_KNOWLEDGE_BASE.text) > 0

\* an option the constructor validates is not set, is empty, or is a system
\* prompt that contains 'not configured'
ConfigRejected ==
    \E option \in {"BOT_SYSTEM_PROMPT", "BEDROCK_MODEL_ID", "BEDROCK_API_VERSION"} :
        \/ environ[option].none
        \/ environ[option].text = <<>>
        \/ InText("not configured", environ[option].text)

\* C25: loading the knowledge base never raises: with a valid configuration the
\* bot is constructed, shared storage is tried first, and the in-memory
\* knowledge base is the content of the canonical key when head_bucket and
\* get_object succeeded, else DEEQU_KNOWLEDGE_BASE when it is set and not
\* empty, else the placeholder
C25_LoadFallsBackInOrder ==
    /\ pc = "raised" => ConfigRejected
    /\ pc = "constructed" =>
          /\ trace[1] \in {"head_bucket", "head_bucket_failed"}
          /\ deequ_context =
                IF Called("get_object") THEN s3[KB_KEY].body
                ELSE IF DefaultInjected THEN environ.DEEQU_KNOWLEDGE_BASE.text
                ELSE PlaceholderKB

\* C25, witness: the canonical key exists but get_object raised, and the
\* injected default was loaded
C25_Witness ==
    /\ pc = "constructed"
    /\ KB_KEY \in DOMAIN s3
    /\ Called("get_object_failed")
    /\ DefaultInjected
    /\ deequ_context = EnvKB
    /\ deequ_context # s3[KB_KEY].body

\* an invocation is past its rate-limit check and has not returned from the
\* learning
Learning(l) ==
    l.pc \in {"dup_check", "search", "synthesize", "s3_put", "s3_copy", "s3_delete",
              "marker"}

\* what the check saw lets it pass: the client was made, and head_object raised
\* (no marker, or an error) or showed a marker at least a cooldown old
MarkerLetsPass(seen) ==
    \/ seen.outcome = "head_raises"
    \/ seen.outcome = "head_ok" /\ seen.age >= Cooldown

\* C26: the rate-limit check of an invocation writes nothing to the bucket and
\* passes exactly on what it reads of the marker, wherever the other invocation
\* is: the marker does not keep two invocations from both passing the check
\* before either writes
C26_MarkerDoesNotExclude ==
    [][ (pc = "rate_check" /\ pc' # pc /\ parked' = parked) =>
            /\ s3' = s3
            /\ pc' = "dup_check" <=> MarkerLetsPass(rate_check')
            /\ pc' # "dup_check" => pc' = "slack"
      ]_vars

\* C26, witness: both invocations passed the check before the first copy to
\* the canonical key, and both have copied to it within one cooldown
C26_Witness ==
    /\ parked # Unset
    /\ Len(copies) = 2
    /\ copies[2] - copies[1] < Cooldown
    /\ Called("copy_object")
    /\ \E i \in 1..Len(parked.trace) : parked.trace[i] = "copy_object"
    /\ rate_check.copies = 0
    /\ parked.rate_check.copies = 0
    /\ MARKER_KEY \in DOMAIN s3

\* C27: a step that changes the canonical key when it exists stores a blob that
\* begins with the content the key held just before: knowledge is appended,
\* never lost, whichever source the in-memory knowledge base was loaded from
C27_WritesOnlyAppend ==
    [][ (KB_KEY \in DOMAIN s3 /\ ObjectAt(s3', KB_KEY) # ObjectAt(s3, KB_KEY)) =>
            /\ KB_KEY \in DOMAIN s3'
            /\ StartsWith(s3[KB_KEY].body, s3'[KB_KEY].body)
      ]_vars

\* C28: the marker is put in an invocation only after, and only if, the
\* invocation has copied a new blob to the canonical key; an invocation whose
\* persist was skipped or failed leaves the marker as it was
C28_MarkerOnlyAfterWrite ==
    pc # "idle" =>
        /\ Called("put_marker") =>
              /\ Called("copy_object")
              /\ PlaceOf("copy_object") < PlaceOf("put_marker")
        /\ ~Called("copy_object") => ObjectAt(s3, MARKER_KEY) = marker_before

====
